---- MODULE Spec2Model ----
(***************************************************************************)
(* Model of the Role-Based Task Reviewer Agent (src/agent.py).             *)
(*                                                                         *)
(* The two MongoDB collections are sequences of documents in insertion     *)
(* order (find_one returns the first match, update_one changes the first   *)
(* match).  Every endpoint is a handler run by a worker of the server's    *)
(* thread pool; a handler is cut into one step per collection operation or *)
(* model-service call, so that requests interleave exactly where the       *)
(* handlers touch shared state.  Optional values (None in the source) are  *)
(* sequences of length 0 or 1.  overall_score is kept in hundredths.       *)
(*                                                                         *)
(* Spec is the review lifecycle: tasks, reviews submitted as text,         *)
(* feedback, next-task generation and the read endpoints, all interleaved. *)
(* SpecScore is the feedback step over a wide range of scores.  SpecSubmit *)
(* is the three submission endpoints (text, file, link) next to            *)
(* create_task.  SpecLink is the link endpoint over a wide range of links. *)
(***************************************************************************)
EXTENDS Integers, Sequences, FiniteSets, TLC

\* ------------------------------------------------------------------ bounds
MaxRequests == 4     \* requests the server takes over one run
MaxTasks    == 2     \* documents the tasks collection may grow to
MaxReviews  == 2     \* documents the reviews collection may grow to
ScoreSpan   == 15    \* SpecScore: model scores from -ScoreSpan to 10 + ScoreSpan

\* the handler threads that run concurrently
Workers == {"w1", "w2"}

\* ------------------------------------------------------- program constants
DhiMin == 1          \* DHIScores: Field(..., ge=1, ...)
DhiMax == 10         \* DHIScores: Field(..., le=10)
Ndigits == 2         \* round(overall_score, 2)

API_KEY == "default-secret-key"

\* ------------------------------------------------------------ input domains
ApiKeys     == {API_KEY, "wrong-key"}
TaskIds     == {"t1", "t2"}
Descriptions == {"d1", "d2"}
Usernames   == {"dev_01"}
\* a submission text is a str, a sequence of code points
Submissions == { <<112, 121>> }
\* review_data.score is a plain int in ReviewData: the model service may
\* return any integer, inside or outside the 0..10 scale.
ScoreValues == {-5, 7, 100}
\* review ids a client may ask for: those handed out, and one never handed out
ReviewIdsAsked == 1..(MaxReviews + 1)
\* Feedback bodies (sentiment, <<dignity, honesty, integrity>>) as sent by the
\* client: within the declared range, and with one component outside it
ValidFeedback   == { <<"up", <<8, 9, 10>>>>, <<"down", <<1, 1, 2>>>> }
InvalidFeedback == { <<"up", <<0, 9, 10>>>>, <<"up", <<8, 11, 10>>>>,
                     <<"down", <<8, 9, -1>>>> }
\* POST /feedback/{review_id} requests: (review_id, body)
FeedbackRequests ==
    (ReviewIdsAsked \X ValidFeedback)
        \cup ({1, MaxReviews + 1} \X InvalidFeedback)

\* The wider feedback domain of SpecScore: every score of a span around the
\* 0..10 scale and one of the 0..100 scale, every body with components from
\* one below to one above the declared range.
WideScores == ((0 - ScoreSpan)..(DhiMax + ScoreSpan)) \cup {100}
WideDhi == (DhiMin - 1)..(DhiMax + 1)
WideFeedbackRequests == {1} \X ({"up"} \X (WideDhi \X WideDhi \X WideDhi))

None == <<>>
Some(v) == <<v>>

\* Strings that the code takes apart are sequences of characters.
Https == <<"h", "t", "t", "p", "s", ":", "/", "/">>
GithubCom == <<"g", "i", "t", "h", "u", "b", ".", "c", "o", "m">>
RawGithubusercontentCom ==
    <<"r", "a", "w", ".", "g", "i", "t", "h", "u", "b", "u", "s", "e", "r",
      "c", "o", "n", "t", "e", "n", "t", ".", "c", "o", "m">>
Blob == <<"/", "b", "l", "o", "b", "/">>
Slash == <<"/">>

\* Links a client may submit: https://<host>/<user>/<repo> followed by
\* /blob/<ref>/<path> (the hosting UI's form) or by /<ref>/<path> (a direct
\* content form).  Hosts: github.com, another forge, two hosts whose name
\* contains the text github.com, and the raw-content host.  Paths: a file, a
\* file in a directory, a file in a directory named blob, a file whose name
\* contains github.com.
LinkHosts ==
    { GithubCom,
      <<"g", "i", "t", "l", "a", "b", ".", "c", "o", "m">>,
      <<"m", "y">> \o GithubCom,
      GithubCom \o <<".", "x", ".", "i", "o">>,
      RawGithubusercontentCom }
LinkUsers == { <<"u">> }
LinkRepos == { <<"r">> }
LinkRefs  == { <<"m", "a", "i", "n">>, <<"b", "l", "o", "b">> }
LinkPaths ==
    { <<"f", ".", "p", "y">>,
      <<"d", "/", "f", ".", "p", "y">>,
      <<"b", "l", "o", "b", "/", "f", ".", "p", "y">>,
      <<"d", "/", "b", "l", "o", "b", "/", "f">>,
      GithubCom \o <<".", "m", "d">> }

UiLink(host, u, r, ref, p) ==
    Https \o host \o Slash \o u \o Slash \o r \o Blob \o ref \o Slash \o p
DirectLink(host, u, r, ref, p) ==
    Https \o host \o Slash \o u \o Slash \o r \o Slash \o ref \o Slash \o p

Links ==
    { UiLink(h, u, r, ref, p) :
        h \in LinkHosts, u \in LinkUsers, r \in LinkRepos, ref \in LinkRefs,
        p \in LinkPaths }
    \cup
    { DirectLink(h, u, r, ref, p) :
        h \in LinkHosts, u \in LinkUsers, r \in LinkRepos, ref \in LinkRefs,
        p \in LinkPaths }

\* The links of the requests that run next to other requests: the hosting
\* UI's link to a file and the direct link to the same file.
LinksAsked ==
    { UiLink(GithubCom, <<"u">>, <<"r">>, <<"m", "a", "i", "n">>,
             <<"f", ".", "p", "y">>),
      DirectLink(RawGithubusercontentCom, <<"u">>, <<"r">>,
                 <<"m", "a", "i", "n">>, <<"f", ".", "p", "y">>) }

\* What the single GET of a link may produce: a response with a status code
\* and a body (a success, a redirection status that is not followed, a client
\* error, a server error), or a transport failure.
FetchResults ==
    { [kind |-> "response", status_code |-> 200, text |-> <<112, 121>>],
      [kind |-> "response", status_code |-> 304, text |-> <<>>],
      [kind |-> "response", status_code |-> 404, text |-> <<52, 48, 52>>],
      [kind |-> "response", status_code |-> 500, text |-> <<>>],
      [kind |-> "ConnectionError"] }

\* Uploaded files, as byte sequences: empty, ASCII, two well-formed multi-byte
\* characters, and four ill-formed sequences (a byte that is never valid, a
\* lead byte cut short, a lead byte followed by ASCII, an encoded surrogate).
FileContents ==
    { <<>>, <<112, 121>>, <<195, 169>>, <<226, 130, 172>>,
      <<255>>, <<195>>, <<195, 40>>, <<237, 160, 128>> }

VARIABLES
    tasks,       \* tasks_collection
    reviews,     \* reviews_collection
    oidCounter,  \* source of fresh ObjectId values
    clock,       \* datetime.utcnow, a logical clock
    accepted,    \* requests taken so far
    pc,          \* per worker: position in the handler it runs
    req,         \* per worker: the request being handled
    loc,         \* per worker: the handler's local variables
    resp,        \* the response sent by the last step, if it sent one
    modelCalls,  \* per worker: model-service invocations of the request
    storeWrites  \* per worker: insert_one/update_one calls of the request

vars == <<tasks, reviews, oidCounter, clock, accepted, pc, req, loc, resp,
          modelCalls, storeWrites>>

\* ------------------------------------------------------------- documents
\* Task.model_dump(by_alias=True, exclude=["id"])
Task(task_id, title, description) ==
    [task_id |-> task_id, title |-> title, description |-> description]

\* NextTask(title="", objectives=[], deliverables="")
EmptyNextTask == [title |-> "", objectives |-> <<>>, deliverables |-> ""]

NextTask(title) ==
    [title |-> title, objectives |-> <<"objective">>, deliverables |-> "deliverable"]

\* ReviewData as parsed from the model output; its own dhi_scores and
\* overall_score keep their default None.
ReviewData(task_id, score) ==
    [task_id |-> task_id, score |-> score, done_well |-> <<"done_well">>,
     missing |-> <<"missing">>, submission_summary |-> "summary",
     dhi_scores |-> None, overall_score |-> None]

\* ReviewHistory(...).model_dump(by_alias=True, exclude=["id"]): review_id and
\* timestamp come from the default factories, the feedback fields default to
\* None.
ReviewHistory(review_id, username, task_id, review_data, feedback_note, next_task, status, timestamp) ==
    [review_id |-> review_id, username |-> username, task_id |-> task_id,
     review_data |-> review_data, feedback_note |-> feedback_note,
     next_task |-> next_task, feedback_sentiment |-> None,
     dhi_scores |-> None, overall_score |-> None, status |-> status,
     timestamp |-> timestamp]

\* DHIScores: three ints, each with Field(..., ge=1, le=10)
DHIScores(d) == [dignity |-> d[1], honesty |-> d[2], integrity |-> d[3]]

\* Mutant of the validation: the upper bound is not declared.
DHIScoresValid_no_le(d) ==
    \A i \in 1..3 : d[i] >= DhiMin

DHIScoresValid(d) ==
    \A i \in 1..3 : d[i] >= DhiMin /\ d[i] <= DhiMax

\* ------------------------------------------------------ collection operations
\* collection.find_one({field: value}): the first matching document, or None
Matches(coll, field, value) == {i \in 1..Len(coll) : coll[i][field] = value}

FirstMatch(coll, field, value) ==
    CHOOSE i \in Matches(coll, field, value) :
        \A j \in Matches(coll, field, value) : i <= j

find_one(coll, field, value) ==
    IF Matches(coll, field, value) = {} THEN None
    ELSE Some(coll[FirstMatch(coll, field, value)])

\* collection.find({field: value}): every matching document, in order
find(coll, field, value) == SelectSeq(coll, LAMBDA doc : doc[field] = value)

\* collection.insert_one(doc)
insert_one(coll, doc) == Append(coll, doc)

\* {"$set": fields} applied to one document
SetFields(doc, fields) ==
    [f \in DOMAIN doc |-> IF f \in DOMAIN fields THEN fields[f] ELSE doc[f]]

\* collection.update_one({field: value}, {"$set": fields}): the first match is
\* changed, nothing is inserted when there is none
update_one(coll, field, value, fields) ==
    IF Matches(coll, field, value) = {} THEN coll
    ELSE [coll EXCEPT ![FirstMatch(coll, field, value)] = SetFields(@, fields)]

\* --------------------------------------------------------- feedback score
RECURSIVE SumSeq(_)
SumSeq(xs) == IF xs = <<>> THEN 0 ELSE Head(xs) + SumSeq(Tail(xs))

\* Mutant of the mean: the model's score is left out of it.
np_mean_dhi_only(xs) == [num |-> SumSeq(Tail(xs)), den |-> Len(xs) - 1]

\* np.mean(list of ints): the exact quotient num/den (float64 holds it exactly
\* for the magnitudes modelled)
np_mean(xs) == [num |-> SumSeq(xs), den |-> Len(xs)]

\* round(x, ndigits) of a float64: the nearest multiple of 10^-ndigits, ties to
\* even; the result is given in units of 10^-ndigits
round(x, ndigits) ==
    LET n == x.num * (10 ^ ndigits)
        q == n \div x.den
        r == n % x.den
    IN  IF 2 * r < x.den THEN q
        ELSE IF 2 * r > x.den THEN q + 1
        ELSE IF q % 2 = 0 THEN q ELSE q + 1

\* Mutants of the feedback update: overall_score is not persisted; a record
\* that already has feedback keeps it.
UpdateData_no_overall(review_record, sentiment, dhi) ==
    [feedback_sentiment |-> Some(sentiment), dhi_scores |-> Some(dhi),
     status |-> "feedback_provided"]

UpdateData_first_wins(review_record, sentiment, dhi) ==
    IF review_record.status = "feedback_provided"
    THEN [feedback_sentiment |-> review_record.feedback_sentiment,
          dhi_scores |-> review_record.dhi_scores,
          overall_score |-> review_record.overall_score,
          status |-> "feedback_provided"]
    ELSE [feedback_sentiment |-> Some(sentiment), dhi_scores |-> Some(dhi),
          overall_score |->
              Some(round(np_mean(<<review_record.review_data.score, dhi.dignity,
                                   dhi.honesty, dhi.integrity>>), Ndigits)),
          status |-> "feedback_provided"]

\* Mutant of the feedback update: a sentiment already stored is kept, the
\* scores are overwritten.
UpdateData_keeps_sentiment(review_record, sentiment, dhi) ==
    LET overall_score ==
            np_mean(<<review_record.review_data.score, dhi.dignity,
                      dhi.honesty, dhi.integrity>>)
    IN  IF review_record.feedback_sentiment # None
        THEN [dhi_scores |-> Some(dhi),
              overall_score |-> Some(round(overall_score, Ndigits)),
              status |-> "feedback_provided"]
        ELSE [feedback_sentiment |-> Some(sentiment), dhi_scores |-> Some(dhi),
              overall_score |-> Some(round(overall_score, Ndigits)),
              status |-> "feedback_provided"]

\* Mutant of the feedback update: the record is also reset to the empty
\* next_task.
UpdateData_resets_next_task(review_record, sentiment, dhi) ==
    [feedback_sentiment |-> Some(sentiment), dhi_scores |-> Some(dhi),
     overall_score |->
         Some(round(np_mean(<<review_record.review_data.score, dhi.dignity,
                              dhi.honesty, dhi.integrity>>), Ndigits)),
     status |-> "feedback_provided", next_task |-> EmptyNextTask]

\* lines 251-258 of provide_feedback: the $set document
UpdateData(review_record, sentiment, dhi) ==
    LET ai_score == review_record.review_data.score
        overall_score ==
            np_mean(<<ai_score, dhi.dignity, dhi.honesty, dhi.integrity>>)
    IN  [feedback_sentiment |-> Some(sentiment), dhi_scores |-> Some(dhi),
         overall_score |-> Some(round(overall_score, Ndigits)),
         status |-> "feedback_provided"]

\* Mutants of the lifecycle guard: no guard at all; the comparison inverted;
\* a guard that also refuses a record whose next_task was generated before.
Locked_never(review_record) == FALSE

Locked_inverted(review_record) == review_record.status = "feedback_provided"

Locked_once(review_record) ==
    \/ review_record.status # "feedback_provided"
    \/ review_record.next_task # EmptyNextTask

\* line 270 of generate_next_task: the lifecycle guard
Locked(review_record) == review_record.status # "feedback_provided"

\* Mutants of the next-task update: it reopens the record for feedback; it
\* marks the record done.
NextTaskUpdate_reopens(next_task) ==
    [next_task |-> next_task, status |-> "pending_feedback"]

NextTaskUpdate_marks_done(next_task) ==
    [next_task |-> next_task, status |-> "done"]

\* Mutant of the next-task update: the mentor note is cleared with it.
NextTaskUpdate_clears_note(next_task) ==
    [next_task |-> next_task, feedback_note |-> ""]

\* line 275 of generate_next_task: the $set document
NextTaskUpdate(next_task) == [next_task |-> next_task]

\* ------------------------------------------------------ submission resolver
\* str.replace(old, new): every non-overlapping occurrence of old, found from
\* the left, is replaced by new
RECURSIVE str_replace(_, _, _)
str_replace(s, old, new) ==
    IF Len(s) < Len(old) THEN s
    ELSE IF SubSeq(s, 1, Len(old)) = old
    THEN new \o str_replace(SubSeq(s, Len(old) + 1, Len(s)), old, new)
    ELSE <<Head(s)>> \o str_replace(Tail(s), old, new)

\* line 236: raw_url
RawUrl(github_url) ==
    str_replace(str_replace(github_url, GithubCom, RawGithubusercontentCom),
                Blob, Slash)

\* Mutant of the status check: a client-error status is let through.
raise_for_status_5xx_only(response) ==
    response.status_code >= 500 /\ response.status_code < 600

\* response.raise_for_status(): TRUE when it raises HTTPError
raise_for_status(response) ==
    response.status_code >= 400 /\ response.status_code < 600

\* bytes.decode('utf-8'): the number of bytes of the character that starts
\* with lead byte b, 0 for a byte that starts none
Utf8Width(b) ==
    IF b < 128 THEN 1
    ELSE IF b >= 194 /\ b <= 223 THEN 2
    ELSE IF b >= 224 /\ b <= 239 THEN 3
    ELSE IF b >= 240 /\ b <= 244 THEN 4
    ELSE 0

\* the values the byte after lead byte b may take
Utf8Second(b) ==
    IF b = 224 THEN 160..191
    ELSE IF b = 237 THEN 128..159
    ELSE IF b = 240 THEN 144..191
    ELSE IF b = 244 THEN 128..143
    ELSE 128..191

Utf8WellFormed(bs, n) ==
    /\ n > 0
    /\ Len(bs) >= n
    /\ n >= 2 => bs[2] \in Utf8Second(bs[1])
    /\ \A k \in 3..n : bs[k] \in 128..191

Utf8CodePoint(bs, n) ==
    IF n = 1 THEN bs[1]
    ELSE IF n = 2 THEN (bs[1] - 192) * 64 + (bs[2] - 128)
    ELSE IF n = 3
    THEN (bs[1] - 224) * 4096 + (bs[2] - 128) * 64 + (bs[3] - 128)
    ELSE (bs[1] - 240) * 262144 + (bs[2] - 128) * 4096
             + (bs[3] - 128) * 64 + (bs[4] - 128)

\* content_bytes.decode('utf-8'): the text, or None for UnicodeDecodeError
RECURSIVE decode(_)
decode(content_bytes) ==
    IF content_bytes = <<>> THEN Some(<<>>)
    ELSE LET n == Utf8Width(content_bytes[1]) IN
         IF ~Utf8WellFormed(content_bytes, n) THEN None
         ELSE LET rest == decode(SubSeq(content_bytes, n + 1,
                                        Len(content_bytes)))
              IN  IF rest = None THEN None
                  ELSE Some(<<Utf8CodePoint(content_bytes, n)>> \o rest[1])

\* ----------------------------------------------------------- model service
\* review_chain.invoke: a ReviewData, or an exception
ReviewOutputs(task_id) == {ReviewData(task_id, s) : s \in ScoreValues}
\* note_chain.invoke: a string, or an exception
NoteOutputs == {"note"}
\* next_task_chain.invoke: a NextTask, or an exception
NextTaskOutputs == {NextTask("next A"), NextTask("next B")}

\* ---------------------------------------------------------------- requests
get_api_key(api_key) == api_key = API_KEY

NoReq  == [op |-> "none"]
NoLoc  == [review_data |-> None, note |-> None, update_data |-> None,
           full_review_context |-> None, next_task |-> None,
           raw_url |-> None]
NoResp == [code |-> 0]

Response(code, body) == [code |-> code, body |-> body]
HTTPException(status_code, detail) ==
    [code |-> status_code, body |-> [detail |-> detail]]

\* What the server logs of a finished request: the request, the
\* response, and how often the request called the model service and wrote to
\* a collection.
Finished(r, response, calls, writes) ==
    [req |-> r, code |-> response.code, body |-> response.body,
     modelCalls |-> calls, storeWrites |-> writes]

InFlight(op) == Cardinality({w \in Workers : req[w].op = op})

\* The database outlives the server process: a run starts on an empty tasks
\* collection or on one that holds a task of an earlier run.
Init ==
    /\ tasks \in {<<>>, <<Task("t1", "title", "d1")>>}
    /\ reviews = <<>>
    /\ oidCounter = 1
    /\ clock = 1
    /\ accepted = 0
    /\ pc = [w \in Workers |-> "idle"]
    /\ req = [w \in Workers |-> NoReq]
    /\ loc = [w \in Workers |-> NoLoc]
    /\ resp = NoResp
    /\ modelCalls = [w \in Workers |-> 0]
    /\ storeWrites = [w \in Workers |-> 0]

\* An idle worker can take the next request.
Idle(w) == pc[w] = "idle" /\ accepted < MaxRequests

\* The worker takes a request.
Accept(w) == Idle(w) /\ accepted' = accepted + 1

\* The handler of request r goes on at position `at` with locals l.
Continue(w, r, at, l, calls, writes) ==
    /\ pc' = [pc EXCEPT ![w] = at]
    /\ req' = [req EXCEPT ![w] = r]
    /\ loc' = [loc EXCEPT ![w] = l]
    /\ modelCalls' = [modelCalls EXCEPT ![w] = calls]
    /\ storeWrites' = [storeWrites EXCEPT ![w] = writes]
    /\ resp' = NoResp

\* Request r got past the handler's checks and goes on at position `at`.
Enter(w, r, at, l) == Continue(w, r, at, l, 0, 0)

\* Request r ends with this response (a return or a raise); the worker is
\* idle again and the handler's locals are gone.
Return(w, r, response, calls, writes) ==
    /\ pc' = [pc EXCEPT ![w] = "idle"]
    /\ req' = [req EXCEPT ![w] = NoReq]
    /\ loc' = [loc EXCEPT ![w] = NoLoc]
    /\ modelCalls' = [modelCalls EXCEPT ![w] = 0]
    /\ storeWrites' = [storeWrites EXCEPT ![w] = 0]
    /\ resp' = Finished(r, response, calls, writes)

\* Request r is turned down by the handler's checks.
Raise(w, r, status_code, detail) ==
    Return(w, r, HTTPException(status_code, detail), 0, 0)

\* ------------------------------------------------------------- create_task
\* POST /tasks up to the find_one of line 215
create_task_find(w) ==
    /\ Idle(w)
    /\ \E task_id \in TaskIds, description \in Descriptions :
        LET task_dict == Task(task_id, "title", description)
            r == [op |-> "create_task", task |-> task_dict]
        IN
        /\ Accept(w)
        /\ Len(tasks) + InFlight("create_task") < MaxTasks
        /\ IF find_one(tasks, "task_id", task_id) # None
           THEN Raise(w, r, 400, "Task already exists.")
           ELSE Enter(w, r, "create_task_insert", NoLoc)
        /\ UNCHANGED <<tasks, reviews, oidCounter, clock>>

\* lines 217-218
create_task_insert(w) ==
    /\ pc[w] = "create_task_insert"
    /\ tasks' = insert_one(tasks, req[w].task)
    /\ Return(w, req[w],
              Response(200, [status |-> "success",
                             task_id |-> req[w].task.task_id]),
              modelCalls[w], storeWrites[w] + 1)
    /\ UNCHANGED <<reviews, oidCounter, clock, accepted>>

\* ------------------------------------------ _run_review_and_note_logic
\* requests that have inserted no record yet and may still insert one
Reviewing ==
    Cardinality({w \in Workers :
        req[w].op \in {"run_review", "full_review_workflow_link"}})

\* Mutant of the task lookup: the review goes on without the task.
run_review_and_note_logic_no_lookup(w, r) ==
    Enter(w, r, "run_review_review", NoLoc)

\* lines 179-181: the task lookup that every submission mode starts the
\* review with
run_review_and_note_logic(w, r) ==
    IF find_one(tasks, "task_id", r.task_id) = None
    THEN Raise(w, r, 404, "Task not found.")
    ELSE Enter(w, r, "run_review_review", NoLoc)

\* ------------------------------------------ full_review_workflow_text
\* POST /review/text/{task_id}/{username}: _run_review_and_note_logic up to
\* the find_one of line 179
run_review_find(w) ==
    /\ Idle(w)
    /\ \E task_id \in TaskIds, username \in Usernames,
       submission_text \in Submissions :
        LET r == [op |-> "run_review", task_id |-> task_id,
                  username |-> username, submission_text |-> submission_text]
        IN
        /\ Accept(w)
        /\ Len(reviews) + Reviewing < MaxReviews
        /\ run_review_and_note_logic(w, r)
        /\ UNCHANGED <<tasks, reviews, oidCounter, clock>>

\* line 183: review_chain.invoke, inside the try
run_review_review(w) ==
    /\ pc[w] = "run_review_review"
    /\ \/ \E review_data \in ReviewOutputs(req[w].task_id) :
            Continue(w, req[w], "run_review_note",
                     [loc[w] EXCEPT !.review_data = Some(review_data)],
                     modelCalls[w] + 1, storeWrites[w])
       \/ Return(w, req[w],
                 HTTPException(500, "Failed to process review with AI model."),
                 modelCalls[w] + 1, storeWrites[w])
    /\ UNCHANGED <<tasks, reviews, oidCounter, clock, accepted>>

\* Mutant of the mentor-note step: the record is saved before the note is
\* asked for.
run_review_note_saves_first(w) ==
    /\ pc[w] = "run_review_note"
    /\ oidCounter' = oidCounter + 1
    /\ clock' = clock + 1
    /\ reviews' = insert_one(reviews,
            ReviewHistory(oidCounter, req[w].username, req[w].task_id,
                          loc[w].review_data[1], "", EmptyNextTask,
                          "pending_feedback", clock))
    /\ \/ \E note \in NoteOutputs :
            Continue(w, req[w], "run_review_insert",
                     [loc[w] EXCEPT !.note = Some(note)],
                     modelCalls[w] + 1, storeWrites[w] + 1)
       \/ Return(w, req[w],
                 HTTPException(500, "Failed to process review with AI model."),
                 modelCalls[w] + 1, storeWrites[w] + 1)
    /\ UNCHANGED <<tasks, accepted>>

\* line 184: note_chain.invoke, inside the try
run_review_note(w) ==
    /\ pc[w] = "run_review_note"
    /\ \/ \E note \in NoteOutputs :
            Continue(w, req[w], "run_review_insert",
                     [loc[w] EXCEPT !.note = Some(note)],
                     modelCalls[w] + 1, storeWrites[w])
       \/ Return(w, req[w],
                 HTTPException(500, "Failed to process review with AI model."),
                 modelCalls[w] + 1, storeWrites[w])
    /\ UNCHANGED <<tasks, reviews, oidCounter, clock, accepted>>

\* Mutant of the insert step: the review_id is not freshly generated, two
\* records get the same.
run_review_insert_reuses_id(w) ==
    LET history_dict ==
            ReviewHistory(1, req[w].username, req[w].task_id,
                          loc[w].review_data[1], loc[w].note[1],
                          EmptyNextTask, "pending_feedback", clock)
    IN  /\ pc[w] = "run_review_insert"
        /\ oidCounter' = oidCounter + 1
        /\ clock' = clock + 1
        /\ reviews' = insert_one(reviews, history_dict)
        /\ Return(w, req[w], Response(200, history_dict),
                  modelCalls[w], storeWrites[w] + 1)
        /\ UNCHANGED <<tasks, accepted>>

\* lines 189-204: the record is built, inserted and returned
run_review_insert(w) ==
    LET history_dict ==
            ReviewHistory(oidCounter, req[w].username, req[w].task_id,
                          loc[w].review_data[1], loc[w].note[1],
                          EmptyNextTask, "pending_feedback", clock)
    IN  /\ pc[w] = "run_review_insert"
        /\ oidCounter' = oidCounter + 1
        /\ clock' = clock + 1
        /\ reviews' = insert_one(reviews, history_dict)
        /\ Return(w, req[w], Response(200, history_dict),
                  modelCalls[w], storeWrites[w] + 1)
        /\ UNCHANGED <<tasks, accepted>>

\* ------------------------------------------ full_review_workflow_file
\* POST /review/file/{task_id}/{username}: the upload is read and decoded;
\* any exception is a 400, otherwise _run_review_and_note_logic up to the
\* find_one of line 179.  The uploaded bytes stay in scope of the handler.
full_review_workflow_file(w) ==
    /\ Idle(w)
    /\ \E task_id \in TaskIds, username \in Usernames,
       content_bytes \in FileContents :
        LET r == [op |-> "full_review_workflow_file", task_id |-> task_id,
                  username |-> username, content_bytes |-> content_bytes]
            submission_text == decode(content_bytes)
        IN
        /\ Accept(w)
        /\ Len(reviews) + Reviewing < MaxReviews
        /\ IF submission_text = None
           THEN Raise(w, r, 400, "Could not read or decode the uploaded file.")
           ELSE run_review_and_note_logic(w,
                    [op |-> "run_review", task_id |-> task_id,
                     username |-> username,
                     submission_text |-> submission_text[1],
                     content_bytes |-> content_bytes])
        /\ UNCHANGED <<tasks, reviews, oidCounter, clock>>

\* ------------------------------------------ full_review_workflow_link
\* POST /review/link/{task_id}/{username}: lines 235-236, and the GET of
\* line 238 is sent
full_review_workflow_link_from(w, links) ==
    /\ Idle(w)
    /\ \E task_id \in TaskIds, username \in Usernames,
       submission_link \in links :
        LET r == [op |-> "full_review_workflow_link", task_id |-> task_id,
                  username |-> username, submission_link |-> submission_link,
                  response |-> None]
        IN
        /\ Accept(w)
        /\ Len(reviews) + Reviewing < MaxReviews
        /\ Enter(w, r, "full_review_workflow_link_get",
                 [NoLoc EXCEPT !.raw_url = Some(RawUrl(submission_link))])
        /\ UNCHANGED <<tasks, reviews, oidCounter, clock>>

full_review_workflow_link(w) == full_review_workflow_link_from(w, LinksAsked)

\* lines 238-243: the GET comes back or fails; a RequestException (a
\* transport failure, or the HTTPError of raise_for_status) is a 400,
\* otherwise _run_review_and_note_logic up to the find_one of line 179.  The
\* response stays in scope of the handler.
full_review_workflow_link_get(w) ==
    /\ pc[w] = "full_review_workflow_link_get"
    /\ \E response \in FetchResults :
        IF response.kind # "response" \/ raise_for_status(response)
        THEN Return(w, [req[w] EXCEPT !.response = Some(response)],
                    HTTPException(400,
                        "Could not fetch content from the provided link."),
                    0, 0)
        ELSE run_review_and_note_logic(w,
                 [op |-> "run_review", task_id |-> req[w].task_id,
                  username |-> req[w].username,
                  submission_text |-> response.text,
                  response |-> Some(response)])
    /\ UNCHANGED <<tasks, reviews, oidCounter, clock, accepted>>

\* ---------------------------------------------------------- provide_feedback
\* POST /feedback/{review_id}: the body is validated against Feedback, then
\* lines 247-258
provide_feedback_find_from(w, requests) ==
    /\ Idle(w)
    /\ \E f \in requests :
        LET review_id == f[1]
            sentiment == f[2][1]
            d == f[2][2]
            review_record == find_one(reviews, "review_id", review_id)
            r == [op |-> "provide_feedback", review_id |-> review_id,
                  sentiment |-> sentiment, dhi_scores |-> DHIScores(d)]
        IN
        /\ Accept(w)
        /\ IF ~DHIScoresValid(d)
           THEN Raise(w, r, 422, "validation error")
           ELSE IF review_record = None
           THEN Raise(w, r, 404, "Review not found.")
           ELSE Enter(w, r, "provide_feedback_update",
                      [NoLoc EXCEPT !.update_data =
                          Some(UpdateData(review_record[1], sentiment,
                                          DHIScores(d)))])
        /\ UNCHANGED <<tasks, reviews, oidCounter, clock>>

provide_feedback_find(w) == provide_feedback_find_from(w, FeedbackRequests)

\* line 259
provide_feedback_update(w) ==
    /\ pc[w] = "provide_feedback_update"
    /\ reviews' = update_one(reviews, "review_id", req[w].review_id,
                             loc[w].update_data[1])
    /\ Continue(w, req[w], "provide_feedback_return", NoLoc,
                modelCalls[w], storeWrites[w] + 1)
    /\ UNCHANGED <<tasks, oidCounter, clock, accepted>>

\* Mutant of the re-read: the filter is left out, the first record of the
\* collection is returned.
provide_feedback_return_any_record(w) ==
    LET updated_record == Some(reviews[1]) IN
    /\ pc[w] = "provide_feedback_return"
    /\ Return(w, req[w],
              Response(200, [status |-> "success",
                             updated_record |-> updated_record[1]]),
              modelCalls[w], storeWrites[w])
    /\ UNCHANGED <<tasks, reviews, oidCounter, clock, accepted>>

\* lines 261-263
provide_feedback_return(w) ==
    LET updated_record == find_one(reviews, "review_id", req[w].review_id) IN
    /\ pc[w] = "provide_feedback_return"
    /\ Return(w, req[w],
              Response(200, [status |-> "success",
                             updated_record |-> updated_record[1]]),
              modelCalls[w], storeWrites[w])
    /\ UNCHANGED <<tasks, reviews, oidCounter, clock, accepted>>

\* -------------------------------------------------------- generate_next_task
\* Mutant of the lookup: the test for a missing record is left out, and the
\* status test fails on None.
generate_next_task_find_no_404(w) ==
    /\ Idle(w)
    /\ \E review_id \in ReviewIdsAsked :
        LET review_record == find_one(reviews, "review_id", review_id)
            r == [op |-> "generate_next_task", review_id |-> review_id]
        IN
        /\ Accept(w)
        /\ IF review_record = None
           THEN Raise(w, r, 500, "Internal Server Error")
           ELSE IF Locked(review_record[1])
           THEN Raise(w, r, 423, "Admin feedback must be provided first.")
           ELSE Enter(w, r, "generate_next_task_invoke",
                      [NoLoc EXCEPT !.full_review_context =
                          Some(review_record[1].review_data)])
        /\ UNCHANGED <<tasks, reviews, oidCounter, clock>>

\* POST /generate-next-task/{review_id}: lines 267-273
generate_next_task_find(w) ==
    /\ Idle(w)
    /\ \E review_id \in ReviewIdsAsked :
        LET review_record == find_one(reviews, "review_id", review_id)
            r == [op |-> "generate_next_task", review_id |-> review_id]
        IN
        /\ Accept(w)
        /\ IF review_record = None
           THEN Raise(w, r, 404, "Review not found.")
           ELSE IF Locked(review_record[1])
           THEN Raise(w, r, 423, "Admin feedback must be provided first.")
           ELSE Enter(w, r, "generate_next_task_invoke",
                      [NoLoc EXCEPT !.full_review_context =
                          Some(review_record[1].review_data)])
        /\ UNCHANGED <<tasks, reviews, oidCounter, clock>>

\* Mutant of the model call: when it fails, the record is put back to the
\* empty next_task before the error is answered.
generate_next_task_invoke_resets(w) ==
    /\ pc[w] = "generate_next_task_invoke"
    /\ \/ /\ \E next_task \in NextTaskOutputs :
                Continue(w, req[w], "generate_next_task_update",
                         [NoLoc EXCEPT !.next_task = Some(next_task)],
                         modelCalls[w] + 1, storeWrites[w])
          /\ reviews' = reviews
       \/ /\ Return(w, req[w], HTTPException(500, "Internal Server Error"),
                    modelCalls[w] + 1, storeWrites[w] + 1)
          /\ reviews' = update_one(reviews, "review_id", req[w].review_id,
                                   [next_task |-> EmptyNextTask])
    /\ UNCHANGED <<tasks, oidCounter, clock, accepted>>

\* line 274: next_task_chain.invoke, outside any try: an exception is the
\* framework's 500
generate_next_task_invoke(w) ==
    /\ pc[w] = "generate_next_task_invoke"
    /\ \/ \E next_task \in NextTaskOutputs :
            Continue(w, req[w], "generate_next_task_update",
                     [NoLoc EXCEPT !.next_task = Some(next_task)],
                     modelCalls[w] + 1, storeWrites[w])
       \/ Return(w, req[w], HTTPException(500, "Internal Server Error"),
                 modelCalls[w] + 1, storeWrites[w])
    /\ UNCHANGED <<tasks, reviews, oidCounter, clock, accepted>>

\* line 275
generate_next_task_update(w) ==
    /\ pc[w] = "generate_next_task_update"
    /\ reviews' = update_one(reviews, "review_id", req[w].review_id,
                             NextTaskUpdate(loc[w].next_task[1]))
    /\ Continue(w, req[w], "generate_next_task_return", NoLoc,
                modelCalls[w], storeWrites[w] + 1)
    /\ UNCHANGED <<tasks, oidCounter, clock, accepted>>

\* lines 277-279
generate_next_task_return(w) ==
    LET updated_record == find_one(reviews, "review_id", req[w].review_id) IN
    /\ pc[w] = "generate_next_task_return"
    /\ Return(w, req[w],
              Response(200, [status |-> "success",
                             updated_record |-> updated_record[1]]),
              modelCalls[w], storeWrites[w])
    /\ UNCHANGED <<tasks, reviews, oidCounter, clock, accepted>>

\* ----------------------------------------------------------- read endpoints
\* GET /review/{review_id}
get_review_details(w) ==
    /\ Idle(w)
    /\ \E review_id \in ReviewIdsAsked :
        LET review_record == find_one(reviews, "review_id", review_id)
            r == [op |-> "get_review_details", review_id |-> review_id]
        IN
        /\ Accept(w)
        /\ IF review_record = None
           THEN Raise(w, r, 404, "Review not found.")
           ELSE Return(w, r, Response(200, review_record[1]), 0, 0)
        /\ UNCHANGED <<tasks, reviews, oidCounter, clock>>

\* GET /tasks/all
get_all_tasks(w) ==
    /\ Accept(w)
    /\ Return(w, [op |-> "get_all_tasks"], Response(200, [items |-> tasks]), 0, 0)
    /\ UNCHANGED <<tasks, reviews, oidCounter, clock>>

\* GET /admin/pending-reviews
get_pending_reviews(w) ==
    /\ Accept(w)
    /\ Return(w, [op |-> "get_pending_reviews"],
              Response(200, [items |-> find(reviews, "status", "pending_feedback")]),
              0, 0)
    /\ UNCHANGED <<tasks, reviews, oidCounter, clock>>

\* GET /user/{username}/reviews
get_user_reviews(w) ==
    /\ Idle(w)
    /\ \E username \in Usernames :
        /\ Accept(w)
        /\ Return(w, [op |-> "get_user_reviews", username |-> username],
                  Response(200, [items |-> find(reviews, "username", username)]),
                  0, 0)
        /\ UNCHANGED <<tasks, reviews, oidCounter, clock>>

\* ------------------------------------------------------------ credentials
\* get_api_key, the dependency of every endpoint above: a request whose
\* X-API-Key is not API_KEY is answered 403 and its handler never runs.
\* The handlers above are those of the requests that pass it.
get_api_key_reject(w) ==
    /\ Idle(w)
    /\ \E api_key \in ApiKeys :
        /\ Accept(w)
        /\ ~get_api_key(api_key)
        /\ Raise(w, [op |-> "rejected"], 403, "Could not validate credentials")
        /\ UNCHANGED <<tasks, reviews, oidCounter, clock>>

\* ------------------------------------------------------------ specification
Next ==
    \E w \in Workers :
        \/ create_task_find(w)
        \/ create_task_insert(w)
        \/ run_review_find(w)
        \/ run_review_review(w)
        \/ run_review_note(w)
        \/ run_review_insert(w)
        \/ provide_feedback_find(w)
        \/ provide_feedback_update(w)
        \/ provide_feedback_return(w)
        \/ generate_next_task_find(w)
        \/ generate_next_task_invoke(w)
        \/ generate_next_task_update(w)
        \/ generate_next_task_return(w)
        \/ get_review_details(w)
        \/ get_all_tasks(w)
        \/ get_pending_reviews(w)
        \/ get_user_reviews(w)
        \/ get_api_key_reject(w)

Spec == Init /\ [][Next]_vars

\* ------------------------------------------- the feedback step on its own
\* One provide_feedback request on a database that holds one pending review,
\* over the wide domain of model scores and feedback bodies.
InitScore ==
    /\ tasks = <<Task("t1", "title", "d1")>>
    /\ reviews \in
          { <<ReviewHistory(1, "dev_01", "t1", ReviewData("t1", score), "note",
                            EmptyNextTask, "pending_feedback", 1)>> :
              score \in WideScores }
    /\ oidCounter = 2
    /\ clock = 2
    /\ accepted = MaxRequests - 1
    /\ pc = [w \in Workers |-> "idle"]
    /\ req = [w \in Workers |-> NoReq]
    /\ loc = [w \in Workers |-> NoLoc]
    /\ resp = NoResp
    /\ modelCalls = [w \in Workers |-> 0]
    /\ storeWrites = [w \in Workers |-> 0]

provide_feedback_find_wide(w) ==
    provide_feedback_find_from(w, WideFeedbackRequests)

NextScore ==
    \E w \in Workers :
        \/ provide_feedback_find_wide(w)
        \/ provide_feedback_update(w)
        \/ provide_feedback_return(w)

SpecScore == InitScore /\ [][NextScore]_vars

\* --------------------------------------------- the submission endpoints
\* The last two requests of a run, among the three submission endpoints and
\* create_task, on a database that holds no task or one task.
InitSubmit ==
    /\ tasks \in {<<>>, <<Task("t1", "title", "d1")>>}
    /\ reviews = <<>>
    /\ oidCounter = 1
    /\ clock = 1
    /\ accepted = MaxRequests - 2
    /\ pc = [w \in Workers |-> "idle"]
    /\ req = [w \in Workers |-> NoReq]
    /\ loc = [w \in Workers |-> NoLoc]
    /\ resp = NoResp
    /\ modelCalls = [w \in Workers |-> 0]
    /\ storeWrites = [w \in Workers |-> 0]

NextSubmit ==
    \E w \in Workers :
        \/ create_task_find(w)
        \/ create_task_insert(w)
        \/ run_review_find(w)
        \/ full_review_workflow_file(w)
        \/ full_review_workflow_link(w)
        \/ full_review_workflow_link_get(w)
        \/ run_review_review(w)
        \/ run_review_note(w)
        \/ run_review_insert(w)

SpecSubmit == InitSubmit /\ [][NextSubmit]_vars

\* ------------------------------------------------- link resolution on its own
\* One link request, over the wide domain of links.
InitLink ==
    /\ tasks = <<Task("t1", "title", "d1")>>
    /\ reviews = <<>>
    /\ oidCounter = 1
    /\ clock = 1
    /\ accepted = MaxRequests - 1
    /\ pc = [w \in Workers |-> "idle"]
    /\ req = [w \in Workers |-> NoReq]
    /\ loc = [w \in Workers |-> NoLoc]
    /\ resp = NoResp
    /\ modelCalls = [w \in Workers |-> 0]
    /\ storeWrites = [w \in Workers |-> 0]

full_review_workflow_link_wide(w) == full_review_workflow_link_from(w, Links)

NextLink ==
    \E w \in Workers :
        \/ full_review_workflow_link_wide(w)
        \/ full_review_workflow_link_get(w)
        \/ run_review_review(w)
        \/ run_review_note(w)
        \/ run_review_insert(w)

SpecLink == InitLink /\ [][NextLink]_vars

\* ================================================================== claims
\* Helpers of the claims below.
ReviewIds == {reviews[i].review_id : i \in 1..Len(reviews)}
Exists(review_id) == review_id \in ReviewIds
RecordOf(review_id) == find_one(reviews, "review_id", review_id)[1]
RecordOfNext(review_id) == find_one(reviews', "review_id", review_id)[1]
Sent(op) == resp.code # 0 /\ resp.req.op = op
SentNext(op) == resp'.code # 0 /\ resp'.req.op = op
GntInFlight ==
    {"generate_next_task_invoke", "generate_next_task_update",
     "generate_next_task_return"}

\* C1: a run_review on a stored task ends in one of two ways: it returns 200
\* after a single insert of one new record (appended, with a review_id no
\* stored record has, status pending_feedback, the model's review_data and
\* note, the empty next_task), which is the body returned; or it raises 500
\* having written nothing.  404 is raised only when the task is not stored.
\* No step of a run_review other than that insert changes the reviews.
C1_Step ==
    /\ SentNext("run_review") =>
          \/ /\ resp'.code = 200
             /\ resp'.storeWrites = 1
             /\ resp'.modelCalls = 2
             /\ reviews' = Append(reviews, resp'.body)
             /\ resp'.body.review_id \notin ReviewIds
             /\ resp'.body.status = "pending_feedback"
             /\ resp'.body.next_task = EmptyNextTask
             /\ resp'.body.review_data \in ReviewOutputs(resp'.req.task_id)
             /\ resp'.body.feedback_note \in NoteOutputs
             /\ resp'.body.task_id = resp'.req.task_id
             /\ resp'.body.username = resp'.req.username
          \/ /\ resp'.code = 500
             /\ resp'.storeWrites = 0
             /\ resp'.modelCalls \in {1, 2}
             /\ reviews' = reviews
          \/ /\ resp'.code = 404
             /\ find_one(tasks, "task_id", resp'.req.task_id) = None
             /\ resp'.storeWrites = 0
             /\ resp'.modelCalls = 0
             /\ reviews' = reviews
    /\ \A w \in Workers :
          (req[w].op = "run_review" /\ pc'[w] # pc[w]
              /\ ~(SentNext("run_review") /\ resp'.code = 200))
          => reviews' = reviews

\* C1: every step is all-or-nothing for run_review: one insert with a 200, or
\* no write at all.
C1_RunReviewAllOrNothing == [][C1_Step]_vars

\* C1 witness: a run_review failed at the mentor-note call (its second model
\* call) while the store holds the record of an earlier, successful run.
C1_Witness ==
    /\ Sent("run_review")
    /\ resp.code = 500
    /\ resp.modelCalls = 2
    /\ Len(reviews) = 1

\* C2: generate_next_task on a stored record whose status is not
\* feedback_provided answers 423 without a model call and without a write,
\* and no request is ever past the guard (at the model call, the update or
\* the re-read) while its record is not feedback_provided.
C2_Step ==
    (SentNext("generate_next_task") /\ Exists(resp'.req.review_id)
        /\ RecordOf(resp'.req.review_id).status # "feedback_provided")
    => /\ resp'.code = 423
       /\ resp'.modelCalls = 0
       /\ resp'.storeWrites = 0
       /\ reviews' = reviews

C2_PastGuard ==
    \A w \in Workers :
        pc[w] \in GntInFlight =>
            /\ Exists(req[w].review_id)
            /\ RecordOf(req[w].review_id).status = "feedback_provided"

\* C2: generate_next_task on a record that is not feedback_provided fails
\* closed with 423, in every step and every state.
C2_LockedFailsClosed == [][C2_Step]_vars /\ []C2_PastGuard

\* C2 witness: a 423 was sent for a stored pending record while another
\* request, a provide_feedback on the same record, is in flight.
C2_Witness ==
    /\ Sent("generate_next_task")
    /\ resp.code = 423
    /\ Exists(resp.req.review_id)
    /\ \E w \in Workers :
          /\ pc[w] = "provide_feedback_update"
          /\ req[w].review_id = resp.req.review_id

\* C3: no step removes or reorders a record, turns feedback_provided back
\* into anything else, and status is always one of the two states.
C3_Step ==
    /\ Len(reviews') >= Len(reviews)
    /\ \A i \in 1..Len(reviews) :
          /\ reviews'[i].review_id = reviews[i].review_id
          /\ reviews[i].status = "feedback_provided"
                => reviews'[i].status = "feedback_provided"
    /\ \A i \in 1..Len(reviews') :
          reviews'[i].status \in {"pending_feedback", "feedback_provided"}

\* C3: in every step status only advances.
C3_StatusOnlyAdvances == [][C3_Step]_vars

\* C3 witness: a record is feedback_provided and a later generate_next_task
\* has written to it.
C3_Witness ==
    \E i \in 1..Len(reviews) :
        /\ reviews[i].status = "feedback_provided"
        /\ reviews[i].next_task # EmptyNextTask
        /\ Sent("generate_next_task")
        /\ resp.code = 200

\* C4: a record whose status is pending_feedback has the empty placeholder
\* as next_task.
C4_NextTaskOnlyAfterFeedback ==
    \A i \in 1..Len(reviews) :
        reviews[i].status = "pending_feedback"
            => reviews[i].next_task = EmptyNextTask

\* C4 witness: a next_task was generated for a record while a
\* provide_feedback on the same record is still in flight.
C4_Witness ==
    \E w \in Workers :
        /\ pc[w] = "provide_feedback_return"
        /\ RecordOf(req[w].review_id).next_task \in NextTaskOutputs

\* C5: a step that changes the status of a stored record is the update step
\* of a provide_feedback on that record; a record that a step adds has status
\* pending_feedback.
C5_Step ==
    /\ \A i \in 1..Len(reviews) :
          reviews'[i].status # reviews[i].status
          => \E w \in Workers :
                /\ pc[w] = "provide_feedback_update"
                /\ pc'[w] = "provide_feedback_return"
                /\ req[w].review_id = reviews[i].review_id
    /\ \A i \in (Len(reviews) + 1)..Len(reviews') :
          /\ reviews'[i].status = "pending_feedback"
          /\ \E w \in Workers : pc[w] = "run_review_insert" /\ pc'[w] = "idle"

\* C5: in every step only provide_feedback changes a status.
C5_FeedbackSoleTrigger == [][C5_Step]_vars

\* C5 witness: the update of a provide_feedback has advanced the second of two
\* records, the first of which is still pending.
C5_Witness ==
    \E w \in Workers :
        /\ pc[w] = "provide_feedback_return"
        /\ Len(reviews) = 2
        /\ req[w].review_id = reviews[2].review_id
        /\ reviews[2].status = "feedback_provided"
        /\ reviews[1].status = "pending_feedback"

\* C6 as stated: a generate_next_task on a stored record whose status is
\* feedback_provided returns the record with next_task from the model output.
C6_AlwaysSucceeds ==
    (Sent("generate_next_task") /\ Exists(resp.req.review_id)
        /\ RecordOf(resp.req.review_id).status = "feedback_provided")
    => /\ resp.code = 200
       /\ resp.body.updated_record.next_task \in NextTaskOutputs

\* C6 amended: such a call is never refused (no 423, no 404): it returns 200
\* with the stored record, whose next_task is a model output, after one model
\* call and one update; or the model call failed and it ends 500 without a
\* write.
C6_NeverLocked ==
    (Sent("generate_next_task") /\ Exists(resp.req.review_id)
        /\ RecordOf(resp.req.review_id).status = "feedback_provided")
    => \/ /\ resp.code = 200
          /\ resp.modelCalls = 1
          /\ resp.storeWrites = 1
          /\ resp.body.updated_record = RecordOf(resp.req.review_id)
          /\ resp.body.updated_record.next_task \in NextTaskOutputs
       \/ /\ resp.code = 500
          /\ resp.modelCalls = 1
          /\ resp.storeWrites = 0

\* C6 witness: a generate_next_task returned 200 for a record that another
\* generate_next_task has already written to.
C6_Witness ==
    /\ Sent("generate_next_task")
    /\ resp.code = 200
    /\ \E w \in Workers :
          /\ pc[w] = "generate_next_task_return"
          /\ req[w].review_id = resp.req.review_id

\* C7: overall_score is None exactly when dhi_scores is None; both are None
\* while the record is pending and both are set once feedback is provided.
C7_OverallIffDhi ==
    \A i \in 1..Len(reviews) :
        /\ (reviews[i].overall_score = None) <=> (reviews[i].dhi_scores = None)
        /\ reviews[i].status = "pending_feedback"
              => reviews[i].dhi_scores = None
        /\ reviews[i].status = "feedback_provided"
              => reviews[i].dhi_scores # None

\* C7 witness: one record has both, another has neither.
C7_Witness ==
    /\ Len(reviews) = 2
    /\ reviews[1].dhi_scores # None
    /\ reviews[1].overall_score # None
    /\ reviews[2].dhi_scores = None

\* C8: the update of a provide_feedback leaves its record feedback_provided
\* with the sentiment, scores and overall score of that call, whatever the
\* record held; and a provide_feedback with a valid body on a stored record
\* ends 200 with a feedback_provided record after one update.
C8_Step ==
    \A w \in Workers :
        (pc[w] = "provide_feedback_update" /\ pc'[w] # pc[w])
        => LET r == RecordOfNext(req[w].review_id) IN
           /\ r.status = "feedback_provided"
           /\ r.feedback_sentiment = Some(req[w].sentiment)
           /\ r.dhi_scores = Some(req[w].dhi_scores)
           /\ r.overall_score = loc[w].update_data[1].overall_score

C8_Succeeds ==
    (Sent("provide_feedback") /\ Exists(resp.req.review_id)
        /\ \A f \in {"dignity", "honesty", "integrity"} :
              resp.req.dhi_scores[f] \in 1..10)
    => /\ resp.code = 200
       /\ resp.storeWrites = 1
       /\ resp.body.updated_record.status = "feedback_provided"

\* C8: every provide_feedback, the first or a later one, succeeds and
\* overwrites with its own values.
C8_FeedbackTwice == [][C8_Step]_vars /\ []C8_Succeeds

\* C8 witness: a provide_feedback has updated a record, and the record now
\* holds the sentiment of another provide_feedback that wrote after it.
C8_Witness ==
    \E w \in Workers :
        /\ pc[w] = "provide_feedback_return"
        /\ RecordOf(req[w].review_id).status = "feedback_provided"
        /\ RecordOf(req[w].review_id).feedback_sentiment # Some(req[w].sentiment)

\* C9: the update of a provide_feedback stores as overall_score the hundredth
\* nearest to (s + dignity + honesty + integrity) / 4, s being the stored
\* review_data.score; s = 7 with 8, 9, 10 gives 8.50.
Abs(x) == IF x < 0 THEN 0 - x ELSE x

C9_Step ==
    \A w \in Workers :
        (pc[w] = "provide_feedback_update" /\ pc'[w] # pc[w])
        => LET r == RecordOfNext(req[w].review_id)
               s == RecordOf(req[w].review_id).review_data.score
               d == req[w].dhi_scores
               total == s + d.dignity + d.honesty + d.integrity
           IN  /\ r.overall_score # None
               /\ 2 * Abs(4 * r.overall_score[1] - 100 * total) <= 4
               /\ (s = 7 /\ d = DHIScores(<<8, 9, 10>>))
                     => r.overall_score = Some(850)

\* C9: in every step the stored overall_score is the mean of the four scores
\* rounded to two decimals.
C9_OverallIsRoundedMean == [][C9_Step]_vars

\* C9 witness: the record of score 7 holds 8, 9, 10 and the overall 8.50.
C9_Witness ==
    /\ Len(reviews) = 1
    /\ reviews[1].review_data.score = 7
    /\ reviews[1].dhi_scores = Some(DHIScores(<<8, 9, 10>>))
    /\ reviews[1].overall_score = Some(850)

\* C10: a provide_feedback whose dignity, honesty or integrity is outside
\* 1..10 ends 422 without a write and leaves the reviews as they were; every
\* stored dhi_scores has its three components within 1..10.
C10_Step ==
    (SentNext("provide_feedback")
        /\ \E f \in {"dignity", "honesty", "integrity"} :
              resp'.req.dhi_scores[f] \notin 1..10)
    => /\ resp'.code = 422
       /\ resp'.storeWrites = 0
       /\ reviews' = reviews

C10_Stored ==
    \A i \in 1..Len(reviews) :
        reviews[i].dhi_scores # None
        => \A f \in {"dignity", "honesty", "integrity"} :
              reviews[i].dhi_scores[1][f] \in 1..10

\* C10: out-of-range feedback is rejected without a write, and only in-range
\* scores are stored.
C10_OutOfRangeRejected == [][C10_Step]_vars /\ []C10_Stored

\* C10 witness: a body with a component outside the range was answered 422
\* for a record that already holds feedback.
C10_Witness ==
    /\ Sent("provide_feedback")
    /\ resp.code = 422
    /\ Exists(resp.req.review_id)
    /\ RecordOf(resp.req.review_id).dhi_scores # None

\* C11 as stated: no two stored tasks have the same task_id, in every
\* reachable state; a create_task for a task_id that is stored is answered 400
\* without a write; and no step changes or removes a stored task.
C11_Unique ==
    \A i, j \in 1..Len(tasks) :
        tasks[i].task_id = tasks[j].task_id => i = j

C11_Step ==
    /\ (SentNext("create_task")
           /\ find_one(tasks, "task_id", resp'.req.task.task_id) # None)
       => /\ resp'.code = 400
          /\ resp'.storeWrites = 0
          /\ tasks' = tasks
    /\ Len(tasks') >= Len(tasks)
    /\ \A i \in 1..Len(tasks) : tasks'[i] = tasks[i]

C11_TaskIdUnique == [][C11_Step]_vars /\ []C11_Unique

\* C12: in every reachable state, a record that holds feedback holds the
\* sentiment and the three scores of one and the same provide_feedback request
\* sent for that record, and its overall_score is a quarter of the sum of its
\* own review_data.score and its own stored dignity, honesty and integrity
\* (in hundredths; a quarter of an integer needs no rounding at two decimals).
C12_LastWriteWins ==
    \A i \in 1..Len(reviews) :
        reviews[i].dhi_scores # None =>
            LET d == reviews[i].dhi_scores[1]
                total == reviews[i].review_data.score + d.dignity
                             + d.honesty + d.integrity
            IN  /\ reviews[i].feedback_sentiment # None
                /\ reviews[i].overall_score # None
                /\ 4 * reviews[i].overall_score[1] = 100 * total
                /\ \E f \in FeedbackRequests :
                      /\ f[1] = reviews[i].review_id
                      /\ Some(f[2][1]) = reviews[i].feedback_sentiment
                      /\ DHIScores(f[2][2]) = d

\* C12 witness: two provide_feedback requests with different bodies were in
\* flight on the same record at the same time, and both have written.
C12_Witness ==
    \E w, v \in Workers :
        /\ w # v
        /\ pc[w] = "provide_feedback_return"
        /\ pc[v] = "provide_feedback_return"
        /\ req[w].review_id = req[v].review_id
        /\ req[w].sentiment # req[v].sentiment

\* C13: no two stored records have the same review_id, the record a run_review
\* inserts gets a review_id that no stored record has, and no step (of a
\* provide_feedback, a generate_next_task or any other request) changes the
\* review_id of a stored record.
C13_Distinct ==
    \A i, j \in 1..Len(reviews) :
        reviews[i].review_id = reviews[j].review_id => i = j

C13_Step ==
    /\ \A i \in 1..Len(reviews) :
          /\ i <= Len(reviews')
          /\ reviews'[i].review_id = reviews[i].review_id
    /\ \A i \in (Len(reviews) + 1)..Len(reviews') :
          reviews'[i].review_id \notin ReviewIds

C13_ReviewIdAssignedOnce == [][C13_Step]_vars /\ []C13_Distinct

\* C13 witness: a run_review has just inserted the second record, with a
\* review_id of its own, while a provide_feedback on the first record is
\* between its update and its re-read.
C13_Witness ==
    /\ Sent("run_review")
    /\ resp.code = 200
    /\ Len(reviews) = 2
    /\ resp.body.review_id = reviews[2].review_id
    /\ reviews[1].status = "feedback_provided"
    /\ \E w \in Workers :
          /\ pc[w] = "provide_feedback_return"
          /\ req[w].review_id = reviews[1].review_id

\* C14: a run_review (by text, by file or by link, once the submission is
\* resolved) whose task_id no stored task has is answered 404 having made no
\* model call and no write, and the step leaves both collections as they
\* were; no request is at a model call or at the insert for a task_id that is
\* not stored.
ReviewEngineSteps == {"run_review_review", "run_review_note", "run_review_insert"}

C14_Step ==
    (SentNext("run_review")
        /\ find_one(tasks, "task_id", resp'.req.task_id) = None)
    => /\ resp'.code = 404
       /\ resp'.modelCalls = 0
       /\ resp'.storeWrites = 0
       /\ reviews' = reviews
       /\ tasks' = tasks

C14_NoReviewWithoutTask ==
    /\ \A w \in Workers :
          pc[w] \in ReviewEngineSteps
              => find_one(tasks, "task_id", req[w].task_id) # None
    /\ \A i \in 1..Len(reviews) :
          find_one(tasks, "task_id", reviews[i].task_id) # None

C14_TaskNotFound == [][C14_Step]_vars /\ []C14_NoReviewWithoutTask

\* C14 witness: a run_review was answered 404 while a create_task for the
\* same task_id is between its lookup and its insert.
C14_Witness ==
    /\ Sent("run_review")
    /\ resp.code = 404
    /\ \E w \in Workers :
          /\ pc[w] = "create_task_insert"
          /\ req[w].task.task_id = resp.req.task_id

\* C15 as stated: a provide_feedback or a generate_next_task whose review_id
\* no stored record has is answered 404 having made no model call and no
\* write, and the step leaves the reviews as they were.
FeedbackOps == {"provide_feedback", "generate_next_task"}

C15_UnknownNext ==
    /\ resp'.code # 0
    /\ resp'.req.op \in FeedbackOps
    /\ ~Exists(resp'.req.review_id)

C15_AlwaysNotFound ==
    [][C15_UnknownNext => /\ resp'.code = 404
                          /\ resp'.modelCalls = 0
                          /\ resp'.storeWrites = 0
                          /\ reviews' = reviews]_vars

\* C15 amended: such a request is answered 404 when its body passes the
\* validation of Feedback (a generate_next_task has no body), and 422 when a
\* provide_feedback carries a score outside 1..10; either way it made no model
\* call and no write and the step leaves the reviews as they were.  No request
\* is past its lookup for a review_id that is not stored.
C15_BodyValidNext ==
    resp'.req.op = "provide_feedback"
        => \A f \in {"dignity", "honesty", "integrity"} :
              resp'.req.dhi_scores[f] \in 1..10

C15_Step ==
    C15_UnknownNext
    => /\ resp'.code = IF C15_BodyValidNext THEN 404 ELSE 422
       /\ resp'.modelCalls = 0
       /\ resp'.storeWrites = 0
       /\ reviews' = reviews

C15_PastLookup ==
    \A w \in Workers :
        pc[w] \in GntInFlight \cup {"provide_feedback_update",
                                    "provide_feedback_return"}
            => Exists(req[w].review_id)

C15_ReviewNotFound == [][C15_Step]_vars /\ []C15_PastLookup

\* C15 witness: a generate_next_task was answered 404 for a review_id that is
\* not stored, while a record with feedback is stored and a provide_feedback
\* on it is in flight.
C15_Witness ==
    /\ Sent("generate_next_task")
    /\ resp.code = 404
    /\ ~Exists(resp.req.review_id)
    /\ \E w \in Workers :
          /\ pc[w] = "provide_feedback_update"
          /\ RecordOf(req[w].review_id).status = "feedback_provided"

\* C16: the byte sequences among FileContents that are not valid UTF-8
IllFormed == { <<255>>, <<195>>, <<195, 40>>, <<237, 160, 128>> }

\* the fetch failed, when the statuses of `passing` are those that do not
\* fail it
FetchFailed(response, passing) ==
    response.kind # "response" \/ response.status_code \notin passing

\* the request r entered the review engine with a submission that was
\* resolved without failure
C16_Resolved(r, passing) ==
    /\ "content_bytes" \in DOMAIN r => r.content_bytes \notin IllFormed
    /\ "response" \in DOMAIN r => ~FetchFailed(r.response[1], passing)

\* A response to a file or link request is a 400 for a submission that failed
\* to resolve, sent without a model call or a write, and the step leaves both
\* collections as they were.
C16_Step(passing) ==
    /\ SentNext("full_review_workflow_file")
          => /\ resp'.code = 400
             /\ resp'.req.content_bytes \in IllFormed
    /\ SentNext("full_review_workflow_link")
          => /\ resp'.code = 400
             /\ FetchFailed(resp'.req.response[1], passing)
    /\ (SentNext("full_review_workflow_file")
           \/ SentNext("full_review_workflow_link"))
          => /\ resp'.modelCalls = 0
             /\ resp'.storeWrites = 0
             /\ reviews' = reviews
             /\ tasks' = tasks

\* No submission that failed to resolve reaches the review engine: not the
\* task lookup and its 404, not a model call, not the insert.
C16_Engine(passing) ==
    /\ \A w \in Workers :
          req[w].op = "run_review" => C16_Resolved(req[w], passing)
    /\ Sent("run_review") => C16_Resolved(resp.req, passing)

\* C16 as stated: a file that is not valid UTF-8, and a link whose fetch fails
\* in transport or returns a status that is not a success status (2xx), are
\* answered 400 before the review engine runs.
C16_NonSuccessRejected == [][C16_Step(200..299)]_vars /\ []C16_Engine(200..299)

\* C16 amended: the same for a file that is not valid UTF-8 and for a link
\* whose fetch fails in transport or returns an error status (4xx or 5xx),
\* which are the statuses raise_for_status raises for.
C16_ResolutionFailure == [][C16_Step(0..399)]_vars /\ []C16_Engine(0..399)

\* C16 witness: a link request for a task_id that is not stored was answered
\* 400 after its fetch returned 404, while the other worker is in the review
\* engine with a decoded file.
C16_Witness ==
    /\ Sent("full_review_workflow_link")
    /\ resp.code = 400
    /\ resp.req.response[1] \in FetchResults
    /\ resp.req.response[1].kind = "response"
    /\ find_one(tasks, "task_id", resp.req.task_id) = None
    /\ \E w \in Workers :
          /\ pc[w] \in ReviewEngineSteps
          /\ "content_bytes" \in DOMAIN req[w]

\* The host of a link: what stands between https:// and the next /.
RECURSIVE UpToSlash(_)
UpToSlash(s) ==
    IF s = <<>> \/ Head(s) = "/" THEN <<>>
    ELSE <<Head(s)>> \o UpToSlash(Tail(s))

HostOf(link) == UpToSlash(SubSeq(link, Len(Https) + 1, Len(link)))

\* C17 as stated: while the GET of a link request is out, the URL it was sent
\* to is the submitted link, character for character, whenever the host of
\* the submitted link is not github.com.
C17_OtherHostsUnchanged ==
    \A w \in Workers :
        (pc[w] = "full_review_workflow_link_get"
            /\ HostOf(req[w].submission_link) # GithubCom)
        => loc[w].raw_url = Some(req[w].submission_link)

\* C18 as stated: while the GET of a link request is out, if the submitted
\* link is https://github.com/u/r/blob/<ref>/<p>, the URL it was sent to is
\* https://raw.githubusercontent.com/u/r/<ref>/<p>, for every u, r, ref and p.
C18_GithubLinkRewritten ==
    \A w \in Workers :
        pc[w] = "full_review_workflow_link_get" =>
            \A u \in LinkUsers, r \in LinkRepos, ref \in LinkRefs,
               p \in LinkPaths :
                req[w].submission_link = UiLink(GithubCom, u, r, ref, p)
                => loc[w].raw_url =
                       Some(DirectLink(RawGithubusercontentCom, u, r, ref, p))

\* The step changes, of the stored records, at most the fields `fields` of the
\* record with this review_id; it adds and removes no record and leaves the
\* tasks as they were.
OnlyChanges(review_id, fields) ==
    /\ tasks' = tasks
    /\ Len(reviews') = Len(reviews)
    /\ \A i \in 1..Len(reviews) :
          /\ DOMAIN reviews'[i] = DOMAIN reviews[i]
          /\ \A f \in DOMAIN reviews[i] :
                reviews'[i][f] # reviews[i][f]
                    => /\ reviews[i].review_id = review_id
                       /\ f \in fields

\* C19: of the steps of a generate_next_task, the update changes only the
\* next_task of the record with the request's review_id, to the model's
\* output; the lookup, the model call and the re-read change nothing.
C19_Step ==
    \A w \in Workers :
        /\ (pc[w] = "generate_next_task_update" /\ pc'[w] # pc[w])
              => /\ OnlyChanges(req[w].review_id, {"next_task"})
                 /\ RecordOfNext(req[w].review_id).next_task
                        = loc[w].next_task[1]
        /\ (pc'[w] # pc[w] /\ pc[w] # "generate_next_task_update"
               /\ (pc[w] \in GntInFlight \/ pc'[w] \in GntInFlight))
              => OnlyChanges(0, {})
        /\ (SentNext("generate_next_task") /\ pc'[w] # pc[w])
              => OnlyChanges(0, {})

C19_NextTaskFrame == [][C19_Step]_vars

\* C19 witness: a generate_next_task returned 200 for a record that holds
\* feedback, while a second record is stored.
C19_Witness ==
    /\ Sent("generate_next_task")
    /\ resp.code = 200
    /\ Len(reviews) = 2
    /\ resp.body.updated_record.dhi_scores # None
    /\ resp.body.updated_record.next_task \in NextTaskOutputs

\* C20: of the steps of a provide_feedback, the update changes only
\* feedback_sentiment, dhi_scores, overall_score and status of the record with
\* the request's review_id; the lookup and the re-read change nothing.
FeedbackFields == {"feedback_sentiment", "dhi_scores", "overall_score", "status"}

C20_Step ==
    \A w \in Workers :
        /\ (pc[w] = "provide_feedback_update" /\ pc'[w] # pc[w])
              => OnlyChanges(req[w].review_id, FeedbackFields)
        /\ (pc'[w] # pc[w] /\ pc[w] # "provide_feedback_update"
               /\ (pc[w] = "provide_feedback_return"
                      \/ pc'[w] = "provide_feedback_update"))
              => OnlyChanges(0, {})
        /\ (SentNext("provide_feedback") /\ pc'[w] # pc[w])
              => OnlyChanges(0, {})

C20_FeedbackFrame == [][C20_Step]_vars

\* C20 witness: a provide_feedback returned 200 with a record that holds a
\* generated next_task next to the sentiment of that request.
C20_Witness ==
    /\ Sent("provide_feedback")
    /\ resp.code = 200
    /\ resp.body.updated_record.next_task \in NextTaskOutputs
    /\ resp.body.updated_record.feedback_sentiment = Some(resp.req.sentiment)

\* C21: a generate_next_task that is answered 500 was past the guard on a
\* record with status feedback_provided, made its one model call and no write;
\* the step that answers it leaves every record and every task as it was, so
\* the record keeps the next_task it had (the empty placeholder or a task
\* generated before) and stays feedback_provided.
C21_Step ==
    (SentNext("generate_next_task") /\ resp'.code = 500)
    => /\ \E w \in Workers :
             /\ pc[w] = "generate_next_task_invoke"
             /\ pc'[w] = "idle"
             /\ req[w] = resp'.req
       /\ resp'.modelCalls = 1
       /\ resp'.storeWrites = 0
       /\ reviews' = reviews
       /\ tasks' = tasks
       /\ RecordOfNext(resp'.req.review_id).status = "feedback_provided"
       /\ RecordOfNext(resp'.req.review_id).next_task
              = RecordOf(resp'.req.review_id).next_task

C21_ModelFailureLeavesRecord == [][C21_Step]_vars

\* C21 witness: a generate_next_task was answered 500 for a record that holds
\* a next_task generated by an earlier call.
C21_Witness ==
    /\ Sent("generate_next_task")
    /\ resp.code = 500
    /\ RecordOf(resp.req.review_id).status = "feedback_provided"
    /\ RecordOf(resp.req.review_id).next_task \in NextTaskOutputs

\* The record holds the feedback of request r: its sentiment, its scores, and
\* the overall score a quarter of the sum of the model's score and its scores
\* (in hundredths).
HoldsFeedbackOf(record, r) ==
    /\ record.status = "feedback_provided"
    /\ record.feedback_sentiment = Some(r.sentiment)
    /\ record.dhi_scores = Some(r.dhi_scores)
    /\ record.overall_score # None
    /\ 4 * record.overall_score[1]
           = 100 * (record.review_data.score + r.dhi_scores.dignity
                       + r.dhi_scores.honesty + r.dhi_scores.integrity)

\* C22 as stated: the record a provide_feedback returns with 200 has status
\* feedback_provided and the sentiment, scores and overall score that this
\* request wrote.
C22_ReturnsOwnWrite ==
    (Sent("provide_feedback") /\ resp.code = 200)
    => HoldsFeedbackOf(resp.body.updated_record, resp.req)

\* C22 amended: the record a provide_feedback returns with 200 is the record
\* as stored at its re-read, with status feedback_provided; after the
\* request's update the stored record holds the feedback of this request, and
\* until the re-read it stops holding it only by the update of another
\* provide_feedback on the same record.
C22_Step ==
    \A w \in Workers :
        /\ (pc[w] = "provide_feedback_update" /\ pc'[w] # pc[w])
              => /\ pc'[w] = "provide_feedback_return"
                 /\ HoldsFeedbackOf(RecordOfNext(req[w].review_id), req[w])
        /\ (pc[w] = "provide_feedback_return"
               /\ pc'[w] = "provide_feedback_return"
               /\ HoldsFeedbackOf(RecordOf(req[w].review_id), req[w])
               /\ ~HoldsFeedbackOf(RecordOfNext(req[w].review_id), req[w]))
              => \E v \in Workers \ {w} :
                    /\ pc[v] = "provide_feedback_update"
                    /\ pc'[v] = "provide_feedback_return"
                    /\ req[v].review_id = req[w].review_id
        /\ (pc[w] = "provide_feedback_return" /\ pc'[w] # pc[w])
              => /\ SentNext("provide_feedback")
                 /\ resp'.code = 200
                 /\ resp'.req = req[w]
                 /\ resp'.body.updated_record = RecordOf(req[w].review_id)
                 /\ resp'.body.updated_record.status = "feedback_provided"
                 /\ reviews' = reviews

C22_ReturnsStoredRecord == [][C22_Step]_vars

\* C22 witness: a provide_feedback returned 200 with a record that holds the
\* sentiment of another request, which wrote between this request's update and
\* its re-read.
C22_Witness ==
    /\ Sent("provide_feedback")
    /\ resp.code = 200
    /\ resp.body.updated_record.status = "feedback_provided"
    /\ resp.body.updated_record.feedback_sentiment # Some(resp.req.sentiment)

====
